---- MODULE Spec2Model ----
(***************************************************************************)
(* FeatureSwitchHelper (src/src/feature-switch-helper.ts): a process-wide  *)
(* singleton guarded by the static fields _instance and canNew, a          *)
(* name -> boolean index built once by createFeatureEnabledMap, and the    *)
(* three static entry points init, isFeatureEnabled and getFeatureDef.     *)
(* The public constructor is modelled as a fourth entry point.             *)
(*                                                                         *)
(* Every call is one atomic step (the code is synchronous).  The variable  *)
(* lastCall records what the caller of the latest call observed: the       *)
(* value returned or the error raised, the messages delivered to the       *)
(* console or to a supplied logger, and the collaborators invoked.         *)
(***************************************************************************)
EXTENDS Naturals, Sequences, FiniteSets, TLC

VARIABLES
  _instance,   \* FeatureSwitchHelper._instance: NULL or the singleton
  canNew,      \* FeatureSwitchHelper.canNew
  created,     \* number of constructor runs that completed
  lastCall     \* observation of the latest call

vars == <<_instance, canNew, created, lastCall>>

\* Cap on the count of completed constructions (the count is unbounded
\* once canNew is left set).
MaxCreated == 1

NULL == [null |-> TRUE]

-----------------------------------------------------------------------------
(* Values                                                                  *)

DEVELOPMENT == "development"
TEST == "test"
UAT == "uat"
PRODUCTION == "production"

Environment == {DEVELOPMENT, TEST, UAT, PRODUCTION}

\* FeatureDefDto: the four boolean flags read by createFeatureEnabledMap.
FlagNames == {"isForceEnabled", "isDevFeature", "isTestFeature", "isUatFeature"}

FeatureDefDto ==
  [isForceEnabled : BOOLEAN, isDevFeature : BOOLEAN,
   isTestFeature : BOOLEAN, isUatFeature : BOOLEAN]

AllOff ==
  [isForceEnabled |-> FALSE, isDevFeature |-> FALSE,
   isTestFeature |-> FALSE, isUatFeature |-> FALSE]

ForceOn == [AllOff EXCEPT !.isForceEnabled = TRUE]

DevOn == [AllOff EXCEPT !.isDevFeature = TRUE]

\* Property names every plain JavaScript object inherits from
\* Object.prototype ("__proto__" is its accessor property).
InheritedNames == {"constructor", "__proto__"}

\* Feature names used as configuration keys, and the names queried ("z" is
\* never configured).
FeatureNames == {"a", "b", "constructor", "__proto__"}

QueryNames == FeatureNames \cup {"z"}

\* Map<string, FeatureDefDto> values of the configurations passed to init:
\* the empty map, every definition of the single feature "a", the
\* inherited names as single features, and the two-feature scenario
\* (a force-enabled, b a development feature).
FeatureMaps ==
  {<<>>}
  \cup { "a" :> d : d \in FeatureDefDto }
  \cup { n :> d : n \in InheritedNames, d \in {AllOff, ForceOn} }
  \cup { ("a" :> ForceOn) @@ ("b" :> DevOn) }

\* FeatureSwitchConfigDto instances (config instanceof FeatureSwitchConfigDto).
FeatureSwitchConfigDto ==
  [class : {"FeatureSwitchConfigDto"},
   features : FeatureMaps,
   validationOptions : [shouldNotUseUndefinedFeatureSwitches : BOOLEAN],
   frozen : {FALSE}]

\* Plain (untyped) values, as parsed JSON.
JBool(b) == [type |-> "boolean", bool |-> b]

JString(s) == [type |-> "string", str |-> s]

JObject(props) == [type |-> "object", props |-> props]

PlainDef(d) == JObject([k \in FlagNames |-> JBool(d[k])])

PlainObject(dto) ==
  [class |-> "Object",
   features |-> JObject([n \in DOMAIN dto.features |-> PlainDef(dto.features[n])]),
   validationOptions |->
     JObject("shouldNotUseUndefinedFeatureSwitches" :>
               JBool(dto.validationOptions.shouldNotUseUndefinedFeatureSwitches))]

ScenarioDto(strict) ==
  [class |-> "FeatureSwitchConfigDto",
   features |-> ("a" :> ForceOn) @@ ("b" :> DevOn),
   validationOptions |-> [shouldNotUseUndefinedFeatureSwitches |-> strict],
   frozen |-> FALSE]

\* Plain configurations that do not have the canonical shape: features is
\* not a mapping, a flag is not a boolean, a flag is missing, the policy
\* flag is not a boolean.
InvalidPlainObjects ==
  { [PlainObject(ScenarioDto(TRUE)) EXCEPT !.features = JString("a,b")],
    [PlainObject(ScenarioDto(FALSE)) EXCEPT
       !.features.props["a"].props["isForceEnabled"] = JString("yes")],
    [PlainObject(ScenarioDto(TRUE)) EXCEPT
       !.features.props["b"] = JObject("isForceEnabled" :> JBool(TRUE))],
    [PlainObject(ScenarioDto(FALSE)) EXCEPT
       !.validationOptions.props["shouldNotUseUndefinedFeatureSwitches"] =
          JString("no")] }

PlainObjects ==
  { PlainObject(ScenarioDto(s)) : s \in BOOLEAN } \cup InvalidPlainObjects

ConfigInputs == FeatureSwitchConfigDto \cup PlainObjects

\* Configurations passed to an init call that finds _instance set (typed,
\* plain, and plain without the canonical shape), and to a direct
\* construction.
RepeatConfigInputs ==
  { ScenarioDto(TRUE), PlainObject(ScenarioDto(FALSE)),
    [PlainObject(ScenarioDto(TRUE)) EXCEPT !.features = JString("a,b")],
    [PlainObject(ScenarioDto(FALSE)) EXCEPT
       !.features.props["a"].props["isForceEnabled"] = JString("yes")] }

NewConfigInputs == { ScenarioDto(TRUE) }

\* ILogger values: the global console, a supplied logger that honours the
\* interface, and a supplied logger whose log raises.
Console == "console"

Loggers == {"custom", "throwing"}

LogThrows(logger) == logger = "throwing"

\* FeatureSwitchHelperOptions: both keys are optional.
OptionInputs ==
  {<<>>}
  \cup { "logger" :> l : l \in Loggers }
  \cup { "ignoreMultipleInit" :> TRUE }
  \cup { ("logger" :> l) @@ ("ignoreMultipleInit" :> TRUE) : l \in Loggers }

-----------------------------------------------------------------------------
(* Observations                                                            *)

Message(sink, level, text, about) ==
  [sink |-> sink, level |-> level, text |-> text, about |-> about]

Void == [kind |-> "void"]

NoValue == [kind |-> "none"]

BoolValue(b) == [kind |-> "boolean", bool |-> b]

ObjectValue(o) == [kind |-> "object", obj |-> o]

NullValue == [kind |-> "null"]

DefValue(d) == [kind |-> "FeatureDefDto", def |-> d]

Undefined == [kind |-> "undefined"]

\* What a call is: the entry point, the feature name of a query, and for
\* init the ignoreMultipleInit option and whether the configuration passed
\* has the canonical shape.
QueryCall(op, featureName) ==
  [op |-> op, name |-> featureName, ignoreMultipleInit |-> FALSE,
   validInput |-> TRUE]

ConfigCall(op, ignoreMultipleInit, validInput) ==
  [op |-> op, name |-> "", ignoreMultipleInit |-> ignoreMultipleInit,
   validInput |-> validInput]

Returned(call, value, emitted, steps) ==
  [op |-> call.op, name |-> call.name,
   ignoreMultipleInit |-> call.ignoreMultipleInit,
   validInput |-> call.validInput,
   error |-> "none", value |-> value, emitted |-> emitted, steps |-> steps]

Raised(call, error, emitted, steps) ==
  [op |-> call.op, name |-> call.name,
   ignoreMultipleInit |-> call.ignoreMultipleInit,
   validInput |-> call.validInput,
   error |-> error, value |-> NoValue, emitted |-> emitted, steps |-> steps]

Outcome(instance, flag, count, call) ==
  [instance |-> instance, canNew |-> flag, created |-> count, call |-> call]

-----------------------------------------------------------------------------
(* Collaborators that live outside feature-switch-helper.ts                *)

IsPlainBoolean(v) == v.type = "boolean"

IsPlainDef(v) ==
  /\ v.type = "object"
  /\ DOMAIN v.props = FlagNames
  /\ \A k \in FlagNames : IsPlainBoolean(v.props[k])

IsValidPlainObject(config) ==
  /\ config.features.type = "object"
  /\ \A n \in DOMAIN config.features.props : IsPlainDef(config.features.props[n])
  /\ config.validationOptions.type = "object"
  /\ DOMAIN config.validationOptions.props = {"shouldNotUseUndefinedFeatureSwitches"}
  /\ IsPlainBoolean(
       config.validationOptions.props["shouldNotUseUndefinedFeatureSwitches"])

\* toDto(FeatureSwitchConfigDto, config): the typed configuration, or a
\* validation error when the plain object has not the canonical shape.
toDto(config) ==
  IF IsValidPlainObject(config)
  THEN [ok |-> TRUE,
        dto |->
          [class |-> "FeatureSwitchConfigDto",
           features |->
             [n \in DOMAIN config.features.props |->
                [k \in FlagNames |-> config.features.props[n].props[k].bool]],
           validationOptions |->
             [shouldNotUseUndefinedFeatureSwitches |->
                config.validationOptions.props[
                  "shouldNotUseUndefinedFeatureSwitches"].bool],
           frozen |-> FALSE]]
  ELSE [ok |-> FALSE]

\* deepFreeze(config): the same configuration, immutable from here on.
deepFreeze(config) == [config EXCEPT !.frozen = TRUE]

IsValidInput(config) ==
  config.class = "FeatureSwitchConfigDto" \/ IsValidPlainObject(config)

-----------------------------------------------------------------------------
(* featureEnabledMap: a plain JavaScript object used as a dictionary.  The *)
(* model keeps its own properties; every other lookup goes to              *)
(* Object.prototype.                                                       *)

EmptyRecord == <<>>

\* map[featureName] = isEnabled.  Assigning a non-object through the
\* "__proto__" accessor is ignored and creates no own property.
RecordSet(map, featureName, isEnabled) ==
  IF featureName = "__proto__" THEN map
  ELSE (featureName :> isEnabled) @@ map

\* map[featureName]: the own property, else the inherited member, else
\* undefined.
RecordGet(map, featureName) ==
  IF featureName \in DOMAIN map THEN BoolValue(map[featureName])
  ELSE IF featureName \in InheritedNames THEN ObjectValue(featureName)
  ELSE Undefined

\* JavaScript truthiness of a looked-up value.
Truthy(v) == (v.kind = "boolean" /\ v.bool) \/ v.kind = "object"

\* Object.entries(map): own enumerable properties only.
Entries(map) == DOMAIN map

IsEnabledIn(featureDef, environment) ==
  \/ featureDef.isForceEnabled
  \/ (DEVELOPMENT = environment /\ featureDef.isDevFeature)
  \/ (TEST = environment /\ featureDef.isTestFeature)
  \/ (UAT = environment /\ featureDef.isUatFeature)

RECURSIVE ForEachFeature(_, _, _, _)
ForEachFeature(features, todo, environment, map) ==
  IF todo = {} THEN map
  ELSE LET featureName == CHOOSE n \in todo : TRUE
       IN ForEachFeature(
            features, todo \ {featureName}, environment,
            RecordSet(map, featureName,
                      IsEnabledIn(features[featureName], environment)))

createFeatureEnabledMap(features, environment) ==
  ForEachFeature(features, DOMAIN features, environment, EmptyRecord)

logFeatureSwitchUsage(logger, featureEnabledMap) ==
  << Message(logger, "log", "Enabled Features",
             { n \in Entries(featureEnabledMap) : featureEnabledMap[n] }),
     Message(logger, "log", "Disabled Features",
             { n \in Entries(featureEnabledMap) : ~featureEnabledMap[n] }) >>

-----------------------------------------------------------------------------
(* The constructor                                                         *)

OptionLogger(options) ==
  IF "logger" \in DOMAIN options THEN options.logger ELSE Console

OptionIgnoreMultipleInit(options) ==
  IF "ignoreMultipleInit" \in DOMAIN options
  THEN options.ignoreMultipleInit ELSE FALSE

\* new FeatureSwitchHelper(environment, config, options), run with the
\* given value of the static canNew.  The first logger.log call raises
\* when the logger's log raises; nothing is assigned to _instance then.
constructor(flag, environment, config, options) ==
  IF ~flag
  THEN [threw |-> TRUE, error |-> "ConstructorIsPrivate",
        emitted |-> <<>>, steps |-> {}]
  ELSE
    LET logger == OptionLogger(options)
        frozenConfig == deepFreeze(config)
        featureEnabledMap ==
          createFeatureEnabledMap(frozenConfig.features, environment)
        steps == {"deepFreeze", "createFeatureEnabledMap"}
    IN IF LogThrows(logger)
       THEN [threw |-> TRUE, error |-> "LoggerError",
             emitted |-> <<>>, steps |-> steps]
       ELSE [threw |-> FALSE,
             instance |->
               [environment |-> environment, config |-> frozenConfig,
                logger |-> logger, featureEnabledMap |-> featureEnabledMap],
             emitted |->
               << Message(logger, "log", "Current Environment", {environment}) >>
               \o logFeatureSwitchUsage(logger, featureEnabledMap),
             steps |-> steps]

-----------------------------------------------------------------------------
(* static init                                                             *)

InitCallOf(config, options) ==
  ConfigCall("init", OptionIgnoreMultipleInit(options), IsValidInput(config))

\* Variant of alreadyInitialized that coerces the configuration before it
\* looks at ignoreMultipleInit.
alreadyInitialized_ValidateFirst(environment, config, options) ==
  LET call == InitCallOf(config, options)
  IN IF config.class # "FeatureSwitchConfigDto" /\ ~toDto(config).ok
     THEN Outcome(_instance, canNew, created,
            Raised(call, "ValidationError", <<>>, {"toDto"}))
     ELSE IF OptionIgnoreMultipleInit(options)
     THEN Outcome(_instance, canNew, created,
            Returned(call, Void,
              << Message(_instance.logger, "warn", "already initialized", {}) >>,
              {}))
     ELSE Outcome(_instance, canNew, created,
            Raised(call, "AlreadyInitialized", <<>>, {}))

\* Variant of alreadyInitialized that also writes the warning as an
\* informational line.
alreadyInitialized_AlsoLogs(environment, config, options) ==
  LET call == InitCallOf(config, options)
  IN IF OptionIgnoreMultipleInit(options)
     THEN Outcome(_instance, canNew, created,
            Returned(call, Void,
              << Message(_instance.logger, "log", "already initialized", {}),
                 Message(_instance.logger, "warn", "already initialized", {}) >>,
              {}))
     ELSE Outcome(_instance, canNew, created,
            Raised(call, "AlreadyInitialized", <<>>, {}))

\* init with _instance set: warn through the installed logger and return
\* when ignoreMultipleInit, else raise.
alreadyInitialized(environment, config, options) ==
  LET call == InitCallOf(config, options)
  IN IF OptionIgnoreMultipleInit(options)
     THEN Outcome(_instance, canNew, created,
            Returned(call, Void,
              << Message(_instance.logger, "warn", "already initialized", {}) >>,
              {}))
     ELSE Outcome(_instance, canNew, created,
            Raised(call, "AlreadyInitialized", <<>>, {}))

\* Variant of firstInit that falls back to an empty configuration when the
\* plain object cannot be coerced.
firstInit_FallbackOnInvalid(environment, config, options) ==
  LET call == InitCallOf(config, options)
      typed == config.class = "FeatureSwitchConfigDto"
      fallback ==
        [class |-> "FeatureSwitchConfigDto", features |-> <<>>,
         validationOptions |-> [shouldNotUseUndefinedFeatureSwitches |-> FALSE],
         frozen |-> FALSE]
      dto == IF typed THEN config
             ELSE IF toDto(config).ok THEN toDto(config).dto ELSE fallback
      before == IF typed THEN {} ELSE {"toDto"}
      built == constructor(TRUE, environment, dto, options)
  IN IF built.threw
     THEN Outcome(_instance, TRUE, created,
            Raised(call, built.error, built.emitted, before \cup built.steps))
     ELSE Outcome(built.instance, FALSE, created + 1,
            Returned(call, Void, built.emitted, before \cup built.steps))

\* init with _instance null: coerce a plain configuration, set canNew,
\* construct and store the instance, clear canNew.  An error raised by toDto
\* leaves before canNew is set; one raised by the constructor leaves before
\* _instance is assigned and before canNew is cleared.
firstInit(environment, config, options) ==
  LET call == InitCallOf(config, options)
      typed == config.class = "FeatureSwitchConfigDto"
      coerced == IF typed THEN [ok |-> TRUE, dto |-> config] ELSE toDto(config)
      before == IF typed THEN {} ELSE {"toDto"}
  IN IF ~coerced.ok
     THEN Outcome(_instance, canNew, created,
            Raised(call, "ValidationError", <<>>, before))
     ELSE LET built == constructor(TRUE, environment, coerced.dto, options)
          IN IF built.threw
             THEN Outcome(_instance, TRUE, created,
                    Raised(call, built.error, built.emitted,
                           before \cup built.steps))
             ELSE Outcome(built.instance, FALSE, created + 1,
                    Returned(call, Void, built.emitted,
                             before \cup built.steps))

\* Variant of initOutcome in which ignoreMultipleInit lets a later call
\* initialize again.
initOutcome_Reinitialize(environment, config, options) ==
  IF _instance # NULL /\ ~OptionIgnoreMultipleInit(options)
  THEN alreadyInitialized(environment, config, options)
  ELSE firstInit(environment, config, options)

initOutcome(environment, config, options) ==
  IF _instance # NULL
  THEN alreadyInitialized(environment, config, options)
  ELSE firstInit(environment, config, options)

Apply(out) ==
  /\ _instance' = out.instance
  /\ canNew' = out.canNew
  /\ created' = out.created
  /\ lastCall' = out.call

init(environment, config, options) ==
  Apply(initOutcome(environment, config, options))

-----------------------------------------------------------------------------
(* Queries                                                                 *)

\* The instance method isFeatureEnabled.
instanceIsFeatureEnabled(this, featureName) ==
  LET call == QueryCall("isFeatureEnabled", featureName)
      isEnabled == RecordGet(this.featureEnabledMap, featureName)
  IN IF isEnabled = Undefined
     THEN IF this.config.validationOptions.shouldNotUseUndefinedFeatureSwitches
          THEN Raised(call, "UndefinedFeature", <<>>, {})
          ELSE Returned(call, BoolValue(FALSE),
                 << Message(Console, "warn", "not defined", {featureName}) >>, {})
     ELSE IF Truthy(isEnabled)
          THEN Returned(call, isEnabled,
                 << Message(Console, "log", "used", {featureName}) >>, {})
          ELSE Returned(call, isEnabled,
                 << Message(Console, "log", "skipped", {featureName}) >>, {})

\* Variant of instanceGetFeatureDef that applies the undefined-feature
\* policy of isFeatureEnabled.
instanceGetFeatureDef_Strict(this, featureName) ==
  LET call == QueryCall("getFeatureDef", featureName)
  IN IF featureName \in DOMAIN this.config.features
     THEN Returned(call, DefValue(this.config.features[featureName]), <<>>, {})
     ELSE IF this.config.validationOptions.shouldNotUseUndefinedFeatureSwitches
     THEN Raised(call, "UndefinedFeature", <<>>, {})
     ELSE Returned(call, NullValue, <<>>, {})

\* The instance method getFeatureDef: Map.get(featureName) || null.
instanceGetFeatureDef(this, featureName) ==
  LET call == QueryCall("getFeatureDef", featureName)
  IN IF featureName \in DOMAIN this.config.features
     THEN Returned(call, DefValue(this.config.features[featureName]), <<>>, {})
     ELSE Returned(call, NullValue, <<>>, {})

\* The static accessor instance raises while _instance is null.
NotInitialized(call) == Raised(call, "NotInitialized", <<>>, {})

\* Variant of isFeatureEnabledOutcome that answers false with a warning
\* while _instance is null.
isFeatureEnabledOutcome_Lenient(featureName) ==
  Outcome(_instance, canNew, created,
    IF _instance = NULL
    THEN Returned(QueryCall("isFeatureEnabled", featureName), BoolValue(FALSE),
           << Message(Console, "warn", "not initialized", {}) >>, {})
    ELSE instanceIsFeatureEnabled(_instance, featureName))

isFeatureEnabledOutcome(featureName) ==
  Outcome(_instance, canNew, created,
    IF _instance = NULL
    THEN NotInitialized(QueryCall("isFeatureEnabled", featureName))
    ELSE instanceIsFeatureEnabled(_instance, featureName))

getFeatureDefOutcome(featureName) ==
  Outcome(_instance, canNew, created,
    IF _instance = NULL
    THEN NotInitialized(QueryCall("getFeatureDef", featureName))
    ELSE instanceGetFeatureDef(_instance, featureName))

isFeatureEnabled(featureName) == Apply(isFeatureEnabledOutcome(featureName))

getFeatureDef(featureName) == Apply(getFeatureDefOutcome(featureName))

-----------------------------------------------------------------------------
(* Direct construction: the constructor is public in the emitted code and  *)
(* guarded only by canNew.  The object built is handed to the caller, not  *)
(* stored in _instance.                                                    *)

newOutcome(environment, config, options) ==
  LET call == ConfigCall("new", FALSE, TRUE)
      built == constructor(canNew, environment, config, options)
  IN IF built.threw
     THEN Outcome(_instance, canNew, created,
            Raised(call, built.error, built.emitted, built.steps))
     ELSE Outcome(_instance, canNew, created + 1,
            Returned(call, ObjectValue("FeatureSwitchHelper"),
                     built.emitted, built.steps))

new(environment, config, options) ==
  /\ canNew => created < MaxCreated
  /\ Apply(newOutcome(environment, config, options))

-----------------------------------------------------------------------------
(* Specification                                                           *)

Init ==
  /\ _instance = NULL
  /\ canNew = FALSE
  /\ created = 0
  /\ lastCall = Returned(ConfigCall("load", FALSE, TRUE), Void, <<>>, {})

Next ==
  \/ /\ _instance = NULL
     /\ \E environment \in Environment, config \in ConfigInputs,
           options \in OptionInputs : init(environment, config, options)
  \/ /\ _instance # NULL
     /\ \E environment \in Environment, config \in RepeatConfigInputs,
           options \in OptionInputs : init(environment, config, options)
  \/ \E featureName \in QueryNames : isFeatureEnabled(featureName)
  \/ \E featureName \in QueryNames : getFeatureDef(featureName)
  \/ \E environment \in Environment, config \in NewConfigInputs,
        options \in OptionInputs : new(environment, config, options)

Spec == Init /\ [][Next]_vars

-----------------------------------------------------------------------------
(* Properties                                                              *)

Initialized == _instance # NULL

IsQuery(call) == call.op \in {"isFeatureEnabled", "getFeatureDef"}

Strict == _instance.config.validationOptions.shouldNotUseUndefinedFeatureSwitches

Configured(featureName) == featureName \in DOMAIN _instance.config.features

\* The resolution rule of the specification, written out for feature F of
\* the installed configuration under the installed environment.
Rule(featureName) ==
  LET F == _instance.config.features[featureName]
      E == _instance.environment
  IN \/ F.isForceEnabled
     \/ (E = "development" /\ F.isDevFeature)
     \/ (E = "test" /\ F.isTestFeature)
     \/ (E = "uat" /\ F.isUatFeature)

\* C1: after a successful init(E, config), isFeatureEnabled(F) of a
\* configured feature F returns exactly the boolean isForceEnabled(F) or
\* (E = development and isDevFeature(F)) or (E = test and isTestFeature(F))
\* or (E = uat and isUatFeature(F)).
C1_EnabledExactlyByRule ==
  (Initialized /\ lastCall.op = "isFeatureEnabled" /\ Configured(lastCall.name))
    => /\ lastCall.error = "none"
       /\ lastCall.value = BoolValue(Rule(lastCall.name))

\* The rule of C1 for every configured feature name other than "__proto__"
\* (kept beside C1 to show where the code and the rule part).
EnabledByRuleExceptProto ==
  (Initialized /\ lastCall.op = "isFeatureEnabled"
     /\ Configured(lastCall.name) /\ lastCall.name # "__proto__")
    => /\ lastCall.error = "none"
       /\ lastCall.value = BoolValue(Rule(lastCall.name))

\* C2: while _instance is null, every isFeatureEnabled and getFeatureDef
\* call raises the not-initialized error, returns no value, emits nothing
\* and leaves the state uninitialized.
C2_QueriesRaiseBeforeInit ==
  [][ (~Initialized /\ IsQuery(lastCall'))
        => /\ lastCall'.error = "NotInitialized"
           /\ lastCall'.value = NoValue
           /\ lastCall'.emitted = <<>>
           /\ _instance' = NULL
           /\ UNCHANGED <<canNew, created>> ]_vars

C2_Witness ==
  /\ ~Initialized
  /\ lastCall.op = "isFeatureEnabled"
  /\ lastCall.error = "NotInitialized"

\* C3: once initialized, an init call without ignoreMultipleInit raises the
\* already-initialized error for any environment and configuration, valid
\* or not, before the configuration is coerced and before anything is
\* logged.
C3_SecondInitRaises ==
  [][ (Initialized /\ lastCall'.op = "init" /\ ~lastCall'.ignoreMultipleInit)
        => /\ lastCall'.error = "AlreadyInitialized"
           /\ lastCall'.steps = {}
           /\ lastCall'.emitted = <<>> ]_vars

C3_Witness ==
  /\ Initialized
  /\ lastCall.op = "init"
  /\ ~lastCall.ignoreMultipleInit
  /\ ~lastCall.validInput
  /\ lastCall.error = "AlreadyInitialized"

C5_UndefinedNamePolicy ==
  (Initialized /\ lastCall.op = "isFeatureEnabled" /\ ~Configured(lastCall.name))
    => IF Strict
       THEN lastCall.error = "UndefinedFeature" /\ lastCall.emitted = <<>>
       ELSE /\ lastCall.error = "none"
            /\ lastCall.value = BoolValue(FALSE)
            /\ Len(lastCall.emitted) = 1
            /\ lastCall.emitted[1].level = "warn"

\* The policy of C5 for names that plain objects do not inherit.
UndefinedNamePolicyExceptInherited ==
  (Initialized /\ lastCall.op = "isFeatureEnabled"
     /\ ~Configured(lastCall.name) /\ lastCall.name \notin InheritedNames)
    => IF Strict
       THEN lastCall.error = "UndefinedFeature" /\ lastCall.emitted = <<>>
       ELSE /\ lastCall.error = "none"
            /\ lastCall.value = BoolValue(FALSE)
            /\ Len(lastCall.emitted) = 1
            /\ lastCall.emitted[1].level = "warn"

\* C6: when init installed a supplied logger, every message of a later
\* isFeatureEnabled call goes to that logger and none to the console.
C6_SuppliedLoggerReceivesAll ==
  (Initialized /\ _instance.logger # Console /\ lastCall.op = "isFeatureEnabled")
    => \A i \in 1..Len(lastCall.emitted) :
         lastCall.emitted[i].sink = _instance.logger

\* C7: once initialized, getFeatureDef(name) returns the stored definition
\* of a configured name and null otherwise; under either policy it never
\* raises, emits nothing and leaves the singleton unchanged.
C7_GetFeatureDefIsPure ==
  [][ (Initialized /\ lastCall'.op = "getFeatureDef")
        => /\ lastCall'.error = "none"
           /\ lastCall'.value =
                IF Configured(lastCall'.name)
                THEN DefValue(_instance.config.features[lastCall'.name])
                ELSE NullValue
           /\ lastCall'.emitted = <<>>
           /\ UNCHANGED <<_instance, canNew, created>> ]_vars

C7_Witness ==
  /\ Initialized
  /\ Strict
  /\ lastCall.op = "getFeatureDef"
  /\ ~Configured(lastCall.name)
  /\ lastCall.value = NullValue

C9_InitializedIsFixed ==
  [][ Initialized
        => /\ _instance' # NULL
           /\ _instance'.environment = _instance.environment
           /\ _instance'.config = _instance.config
           /\ _instance'.featureEnabledMap = _instance.featureEnabledMap
           /\ _instance'.logger = _instance.logger ]_vars

C9_Witness ==
  /\ Initialized
  /\ lastCall.op = "init"
  /\ lastCall.validInput
  /\ lastCall.ignoreMultipleInit
  /\ Len(lastCall.emitted) = 1
  /\ lastCall.emitted[1].level = "warn"

\* C10: canNew is false between public calls after any sequence of init
\* calls, failing ones included; so direct construction always raises the
\* constructor-is-private error and at most one instance is ever created.
C10_CanNewFalseBetweenCalls ==
  /\ canNew = FALSE
  /\ created <= 1
  /\ lastCall.op = "new" => lastCall.error = "ConstructorIsPrivate"

====
